---- MODULE Spec2Model ----
(***************************************************************************)
(* rateprowler: one probe goroutine per configured endpoint, a reporter    *)
(* goroutine, and main waiting on a sync.WaitGroup (src/main.go).          *)
(*                                                                         *)
(* Durations and instants are in milliseconds (time.Duration is in         *)
(* nanoseconds; the values the program computes here are whole multiples   *)
(* of a millisecond apart from the truncating division of waitTime).       *)
(* The zero time.Time is the instant 0; the clock never reads 0.           *)
(***************************************************************************)
EXTENDS Integers, Sequences, FiniteSets, TLC

\* ---------------------------------------------------------------- bounds
MaxReq == 3          \* largest MaxRequests of a configured endpoint
MaxClock == 3        \* the clock stops advancing after this many seconds
MaxRateLen == 3      \* longest rate expression handed to parseRate

\* ------------------------------------------------------- program constants
Second == 1000
Minute == 60000
Hour == 3600000
WgDelta == 100000

\* ------------------------------------------------------------ parseRate
DigitChars == {"0", "1", "2", "3", "4", "5", "6", "7", "8", "9"}

DigitVal(c) ==
    CASE c = "0" -> 0 [] c = "1" -> 1 [] c = "2" -> 2 [] c = "3" -> 3
      [] c = "4" -> 4 [] c = "5" -> 5 [] c = "6" -> 6 [] c = "7" -> 7
      [] c = "8" -> 8 [] c = "9" -> 9

RECURSIVE SkipSpace(_)
\* fmt's SkipSpace before a %d verb: leading blanks are dropped
SkipSpace(s) ==
    IF s # <<>> /\ Head(s) = " " THEN SkipSpace(Tail(s)) ELSE s

RECURSIVE ScanDigits(_, _)
\* the value of the longest run of digits s starts with, continuing from acc
ScanDigits(s, acc) ==
    IF s # <<>> /\ Head(s) \in DigitChars
    THEN ScanDigits(Tail(s), acc * 10 + DigitVal(Head(s)))
    ELSE acc

\* fmt.Sscanf(s, "%d", &limit) on a limit that is 0 before the call:
\* blanks, an optional sign, then at least one digit; whatever follows the
\* digits is left unread; a scan error leaves limit 0
Sscanf(s) ==
    LET t == SkipSpace(s)
        signed == t # <<>> /\ Head(t) \in {"+", "-"}
        u == IF signed THEN Tail(t) ELSE t
    IN  IF u = <<>> \/ Head(u) \notin DigitChars
        THEN 0
        ELSE IF signed /\ Head(t) = "-"
             THEN 0 - ScanDigits(u, 0)
             ELSE ScanDigits(u, 0)

NoRate == [ok |-> FALSE, limit |-> 0, interval |-> 0]

parseRate(rate) ==
    IF Len(rate) < 2
    THEN NoRate
    ELSE LET unit == rate[Len(rate)]
             rateValue == SubSeq(rate, 1, Len(rate) - 1)
             limit == Sscanf(rateValue)
         IN  IF unit \notin {"s", "m", "h"}
             THEN NoRate
             ELSE IF limit <= 0
                  THEN NoRate
                  ELSE [ok |-> TRUE, limit |-> limit,
                        interval |-> CASE unit = "s" -> Second
                                       [] unit = "m" -> Minute
                                       [] unit = "h" -> Hour]

waitTime(rl) == rl.interval \div rl.limit

\* url.Parse taken to accept every string
urlParseOkAlways(proxy) == TRUE

\* url.Parse on the proxy strings of the model: a malformed escape is the
\* one rejected
urlParseOk(proxy) == proxy # "%zz"


\* ------------------------------------------------------- configurations
Rates == {<<"3", "s">>, <<"0", "s">>}
Proxies == {"", "http://proxy", "%zz"}
IntervalLists == {<<>>, <<1>>, <<1, 2>>}

\* a Tester of the configuration file (Name and URL are the tester's
\* position in the list)
TesterConfigs ==
    {c \in [Rate : Rates, MaxRequests : 0..MaxReq, Proxy : Proxies,
            ErrorWaitIntervals : IntervalLists] :
        c.Proxy = "http://proxy" => c.MaxRequests <= 1}

\* the configurations explored: no tester, any one tester, and pairs of
\* a tester of two requests with a plain tester of one
PairConfigs ==
    {c \in TesterConfigs :
        /\ c.MaxRequests = 2
        /\ c.Proxy # "http://proxy"
        /\ c.ErrorWaitIntervals = <<>>}

PlainConfigs ==
    {c \in TesterConfigs :
        /\ c.MaxRequests = 1
        /\ c.Rate = <<"3", "s">>
        /\ c.Proxy = ""
        /\ c.ErrorWaitIntervals = <<1>>}

Configurations ==
    {<<>>} \cup {<<c>> : c \in TesterConfigs}
           \cup {<<c, d>> : c \in PairConfigs, d \in PlainConfigs}

\* outcomes of client.Get: a transport error (resp is nil), or a response
\* with a status code
Statuses == {199, 200, 299, 300, 400, 401, 499, 500}
Outcomes ==
    {[err |-> TRUE, status |-> 0]} \cup
    {[err |-> FALSE, status |-> s] : s \in Statuses}

\* ----------------------------------------------------------------- state
VARIABLES
    testers,        \* config.Testers
    db,             \* the handle databaseInit returned: "open" or "nil"
    proc,           \* the process: "running", "exited", "crashed"
    panicIn,        \* the probe whose goroutine panicked, 0 for none
    spawned,        \* testers main has started a goroutine for
    wg,             \* the WaitGroup counter
    now,            \* the clock
    startTime,      \* main's startTime
    tickPending,    \* a tick waits in the reporter's channel
    pc,             \* per probe: where its goroutine is
    wake,           \* per probe: instant its current sleep began
    rate,           \* per probe: the parsed rateLimit
    requestCount, waitIndex, errorWait, lastError, batchStartTime,
    results,        \* per probe: its Result
    batches,        \* per probe: the Batches handed to logBatch
    events,         \* per probe: the INSERTs into errors handed to db.Exec
    hist            \* per probe: for each response received so far, the
                    \* branch taken and the instant

probeVars == <<pc, wake, rate, requestCount, waitIndex, errorWait, lastError,
               batchStartTime, results, batches, events, hist>>
vars == <<testers, db, proc, panicIn, spawned, wg, now, tickPending,
          startTime, pc, wake, rate, requestCount, waitIndex, errorWait, lastError,
          batchStartTime, results, batches, events, hist>>

Endpoints == 1..Len(testers)

NewResult ==
    [SuccessfulCount |-> 0, BatchSuccessfulCount |-> 0, ErrorCount |-> 0,
     BatchErrorCount |-> 0, RequestsPerSecond |-> <<0, 1>>, ErrorWait |-> 0,
     SleepStatus |-> FALSE, TotalSuccessTime |-> 0]

Init ==
    /\ testers \in Configurations
    /\ db \in {"open", "nil"}
    /\ proc = "running"
    /\ panicIn = 0
    /\ spawned = 0
    /\ wg = 0
    /\ now = Second
    /\ startTime = now
    /\ tickPending = FALSE
    /\ pc = [i \in Endpoints |-> "unborn"]
    /\ wake = [i \in Endpoints |-> 0]
    /\ rate = [i \in Endpoints |-> NoRate]
    /\ requestCount = [i \in Endpoints |-> 0]
    /\ waitIndex = [i \in Endpoints |-> 0]
    /\ errorWait = [i \in Endpoints |-> 0]
    /\ lastError = [i \in Endpoints |-> 0]
    /\ batchStartTime = [i \in Endpoints |-> 0]
    /\ results = [i \in Endpoints |-> NewResult]
    /\ batches = [i \in Endpoints |-> <<>>]
    /\ events = [i \in Endpoints |-> <<>>]
    /\ hist = [i \in Endpoints |-> <<>>]


\* ------------------------------------------------- the probe's decisions
\* the failure range with its lower end included
IsFailureFrom400(o) == o.err \/ (o.status >= 400 /\ o.status < 500)

\* line 121: a transport error, or a status strictly between 400 and 500
IsFailure(o) == o.err \/ (o.status > 400 /\ o.status < 500)

\* line 159, reached when line 121 is false
IsSuccess(o) == o.status >= 200 /\ o.status < 300

\* lines 139-142: the wait and the index after a failure
EscalatedWait(ew, wi, intervals) ==
    IF wi < Len(intervals) THEN intervals[wi + 1] * Second ELSE ew

\* the index without its saturation test
EscalatedIndexUnbounded(wi, intervals) == wi + 1

EscalatedIndex(wi, intervals) ==
    IF wi < Len(intervals) THEN wi + 1 ELSE wi

\* the index not reset by a success
ResetIndexKept(wi) == wi

\* lines 166-168
ResetIndex(wi) == IF wi > 0 THEN 0 ELSE wi

\* the streak start overwritten by every failure
StreakStartLatest(le, t) == t

\* lines 148-150: the streak start is taken by the first failure only
StreakStart(le, t) == IF le = 0 THEN t ELSE le

\* line 144
SuccessTimeAtFailure(t, bst) == t - bst

\* the instant of the success in place of the time since the streak began
TotalErrorWaitFromZero(t, le) == t

\* line 175
TotalErrorWait(t, le) == t - le

\* line 190: tester.ErrorWaitIntervals[waitIndex] (Go indexes from 0); an
\* index outside the slice panics
IndexInRange(intervals, wi) == wi >= 0 /\ wi < Len(intervals)

\* the index recorded in place of the interval it selects
LastWaitIntervalIndex(intervals, wi) == wi

LastWaitIntervalOf(intervals, wi) == intervals[wi + 1]

\* the loop variable of line 74 read by the goroutine at the time it runs,
\* in place of its own copy
WindowOfLoopVariable(i) == IF spawned = 0 THEN i ELSE spawned

\* lines 76 and 201: the goroutine receives i by value, and results[i] is
\* the window it reads and writes
Window(i) == i

\* a counter left as it was
NotIncremented(c) == c

\* lines 135-136: ErrorCount++ and BatchErrorCount++, before the sleep
Incremented(c) == c + 1

\* a within-streak counter kept across the Batch
ResetCountKept(c) == c

\* lines 194-195
ResetCount(c) == 0

\* the rate computed from the count before its increment
RequestsPerSecondStale(n, t, start) == <<n - 1, t - start>>

\* line 163: float64(SuccessfulCount) / time.Since(startTime).Seconds(), as
\* the pair of the count and the elapsed time
RequestsPerSecondOf(n, t, start) == <<n, t - start>>

\* the flag left set after the sleep
SleepStatusLeftSet == TRUE

\* line 157
SleepStatusAfterWake == FALSE

\* lines 125 and 127: the INSERT handed to db.Exec
ErrorInsert(i, o, t) ==
    IF o.err
    THEN [columns |-> <<"name", "type", "error", "timestamp">>,
          placeholders |-> 3,
          args |-> <<i, "sys", "err", t \div Second>>]
    ELSE [columns |-> <<"name", "type", "status", "timestamp">>,
          placeholders |-> 4,
          args |-> <<i, "http", o.status, t \div Second>>]

\* line 113: the loop condition
AtLoopHead(i, rc) == IF rc < testers[i].MaxRequests THEN "pace" ELSE "done"

\* time.Sleep(d) begun at the clock reading start has returned: the clock
\* reads whole seconds, so a sleep shorter than a second can end within
\* the reading it began in
SleepOver(start, d) == now >= start + (d \div Second) * Second

\* line 198 and back to line 113; leaving the loop runs the deferred
\* wg.Done (line 77)
Continue(i, rc) ==
    /\ requestCount' = [requestCount EXCEPT ![i] = rc]
    /\ pc' = [pc EXCEPT ![i] = AtLoopHead(i, rc)]
    /\ wake' = [wake EXCEPT ![i] = now]
    /\ wg' = IF AtLoopHead(i, rc) = "done" THEN wg - 1 ELSE wg

Received(i, branch) ==
    hist' = [hist EXCEPT ![i] = Append(@, [branch |-> branch, at |-> now])]


\* ------------------------------------------------------------------ main
\* lines 74-76: wg.Add, then the go statement
Spawn ==
    /\ proc = "running"
    /\ spawned < Len(testers)
    /\ wg' = wg + WgDelta
    /\ spawned' = spawned + 1
    /\ pc' = [pc EXCEPT ![spawned + 1] = "start"]
    /\ UNCHANGED <<testers, db, proc, panicIn, now, tickPending, startTime, wake, rate,
                   requestCount, waitIndex, errorWait, lastError,
                   batchStartTime, results, batches, events, hist>>

\* line 204: wg.Wait returns when the counter is zero, and main returns
MainWait ==
    /\ proc = "running"
    /\ spawned = Len(testers)
    /\ wg = 0
    /\ proc' = "exited"
    /\ UNCHANGED <<testers, db, panicIn, spawned, wg, now, tickPending, startTime,
                   probeVars>>

\* lines 64-71: one tick of the reporter; it reads results and prints
Report ==
    /\ proc = "running"
    /\ tickPending
    /\ tickPending' = FALSE
    /\ UNCHANGED <<testers, db, proc, panicIn, spawned, wg, now, startTime, probeVars>>

\* a second passes; time.Tick's channel (line 65) holds one tick, and a
\* tick that finds it full is dropped
Tick ==
    /\ proc = "running"
    /\ now - startTime < MaxClock * Second
    /\ now' = now + Second
    /\ tickPending' = TRUE
    /\ UNCHANGED <<testers, db, proc, panicIn, spawned, wg, startTime, probeVars>>

\* ----------------------------------------------------------------- probe
\* lines 77-113: proxy, rate, the locals, the first loop test
ProbeStart(i) ==
    /\ proc = "running"
    /\ pc[i] = "start"
    /\ IF testers[i].Proxy # "" /\ ~urlParseOk(testers[i].Proxy)
       THEN /\ pc' = [pc EXCEPT ![i] = "done"]
            /\ wg' = wg - 1
            /\ UNCHANGED <<rate, batchStartTime, wake>>
       ELSE IF ~parseRate(testers[i].Rate).ok
            THEN /\ pc' = [pc EXCEPT ![i] = "done"]
                 /\ wg' = wg - 1
                 /\ UNCHANGED <<rate, batchStartTime, wake>>
            ELSE /\ rate' = [rate EXCEPT ![i] = parseRate(testers[i].Rate)]
                 /\ batchStartTime' = [batchStartTime EXCEPT ![i] = now]
                 /\ pc' = [pc EXCEPT ![i] = AtLoopHead(i, 0)]
                 /\ wake' = [wake EXCEPT ![i] = now]
                 /\ wg' = IF AtLoopHead(i, 0) = "done" THEN wg - 1 ELSE wg
    /\ UNCHANGED <<testers, db, proc, panicIn, spawned, now, tickPending, startTime,
                   requestCount, waitIndex, errorWait, lastError, results,
                   batches, events, hist>>

\* line 116 returns, line 119 is issued
PaceDone(i) ==
    /\ proc = "running"
    /\ pc[i] = "pace"
    /\ SleepOver(wake[i], waitTime(rate[i]))
    /\ pc' = [pc EXCEPT ![i] = "request"]
    /\ UNCHANGED <<testers, db, proc, panicIn, spawned, wg, now, tickPending, startTime,
                   wake, rate, requestCount, waitIndex, errorWait, lastError,
                   batchStartTime, results, batches, events, hist>>

\* lines 121-154: a failed request, up to the backoff sleep; db.Exec on a
\* nil handle panics, which ends the process
HandleFailure(i, o) ==
    /\ proc = "running"
    /\ pc[i] = "request"
    /\ IsFailure(o)
    /\ Received(i, "failure")
    /\ IF db = "nil"
       THEN /\ proc' = "crashed"
            /\ panicIn' = i
            /\ UNCHANGED <<pc, wake, events, results, waitIndex, errorWait,
                           lastError, batchStartTime>>
       ELSE /\ UNCHANGED <<proc, panicIn>>
            /\ events' = [events EXCEPT ![i] = Append(@, ErrorInsert(i, o, now))]
            /\ errorWait' = [errorWait EXCEPT ![i] =
                   EscalatedWait(@, waitIndex[i], testers[i].ErrorWaitIntervals)]
            /\ waitIndex' = [waitIndex EXCEPT ![i] =
                   EscalatedIndex(@, testers[i].ErrorWaitIntervals)]
            /\ results' = [results EXCEPT
                   ![Window(i)].ErrorCount = Incremented(@),
                   ![Window(i)].BatchErrorCount = Incremented(@),
                   ![Window(i)].TotalSuccessTime =
                       SuccessTimeAtFailure(now, batchStartTime[i]),
                   ![Window(i)].SleepStatus = TRUE]
            /\ batchStartTime' = [batchStartTime EXCEPT ![i] = now]
            /\ lastError' = [lastError EXCEPT ![i] = StreakStart(@, now)]
            /\ pc' = [pc EXCEPT ![i] = "backoff"]
            /\ wake' = [wake EXCEPT ![i] = now]
    /\ UNCHANGED <<testers, db, spawned, wg, now, tickPending, startTime, rate,
                   requestCount, batches>>

\* lines 154-157, 198: the backoff sleep returns
BackoffDone(i) ==
    /\ proc = "running"
    /\ pc[i] = "backoff"
    /\ SleepOver(wake[i], errorWait[i])
    /\ results' = [results EXCEPT
           ![Window(i)].SleepStatus = SleepStatusAfterWake]
    /\ Continue(i, requestCount[i] + 1)
    /\ UNCHANGED <<testers, db, proc, panicIn, spawned, now, tickPending, startTime,
                   rate, waitIndex, errorWait, lastError, batchStartTime,
                   batches, events, hist>>

\* lines 159-198: a successful request; building the Batch indexes
\* ErrorWaitIntervals, and an index out of range panics
HandleSuccess(i, o) ==
    LET wi == ResetIndex(waitIndex[i])
        n == results[Window(i)].SuccessfulCount + 1
        r1 == [results[Window(i)] EXCEPT
                  !.SuccessfulCount = n,
                  !.BatchSuccessfulCount = @ + 1,
                  !.RequestsPerSecond = RequestsPerSecondOf(n, now, startTime)]
        totalErrorWait == TotalErrorWait(now, lastError[i])
        r2 == [r1 EXCEPT !.ErrorWait = totalErrorWait]
        intervals == testers[i].ErrorWaitIntervals
        batch == [Name |-> i,
                  Successes |-> r2.BatchSuccessfulCount,
                  SuccessTime |-> r2.TotalSuccessTime,
                  Failures |-> r2.BatchErrorCount,
                  FailTime |-> totalErrorWait,
                  LastWaitInterval |-> LastWaitIntervalOf(intervals, wi)]
    IN  /\ proc = "running"
        /\ pc[i] = "request"
        /\ ~IsFailure(o)
        /\ IsSuccess(o)
        /\ Received(i, "success")
        /\ waitIndex' = [waitIndex EXCEPT ![i] = wi]
        /\ IF lastError[i] = 0
           THEN /\ results' = [results EXCEPT ![Window(i)] = r1]
                /\ Continue(i, requestCount[i] + 1)
                /\ UNCHANGED <<proc, panicIn, lastError, batches>>
           ELSE /\ lastError' = [lastError EXCEPT ![i] = 0]
                /\ IF ~IndexInRange(intervals, wi) \/ db = "nil"
                   THEN /\ proc' = "crashed"
                        /\ panicIn' = i
                        /\ results' = [results EXCEPT ![Window(i)] = r2]
                        /\ UNCHANGED <<pc, wake, wg, requestCount, batches>>
                   ELSE /\ UNCHANGED <<proc, panicIn>>
                        /\ batches' = [batches EXCEPT ![i] = Append(@, batch)]
                        /\ results' = [results EXCEPT ![Window(i)] =
                               [r2 EXCEPT
                                   !.BatchErrorCount = ResetCount(@),
                                   !.BatchSuccessfulCount = ResetCount(@)]]
                        /\ Continue(i, requestCount[i] + 1)
        /\ UNCHANGED <<testers, db, spawned, now, tickPending, startTime, rate,
                       errorWait, batchStartTime, events>>

\* lines 121, 159, 198: neither branch is taken
HandleUnclassified(i, o) ==
    /\ proc = "running"
    /\ pc[i] = "request"
    /\ ~IsFailure(o)
    /\ ~IsSuccess(o)
    /\ Received(i, "none")
    /\ Continue(i, requestCount[i] + 1)
    /\ UNCHANGED <<testers, db, proc, panicIn, spawned, now, tickPending, startTime,
                   rate, waitIndex, errorWait, lastError, batchStartTime,
                   results, batches, events>>

Next ==
    \/ Spawn
    \/ MainWait
    \/ Report
    \/ Tick
    \/ \E i \in Endpoints : ProbeStart(i)
    \/ \E i \in Endpoints : PaceDone(i)
    \/ \E i \in Endpoints : BackoffDone(i)
    \/ \E i \in Endpoints, o \in Outcomes : HandleFailure(i, o)
    \/ \E i \in Endpoints, o \in Outcomes : HandleSuccess(i, o)
    \/ \E i \in Endpoints, o \in Outcomes : HandleUnclassified(i, o)

Spec == Init /\ [][Next]_vars


\* ------------------------------------------- parseRate on every string
\* the rate expressions explored: every string of up to MaxRateLen
\* characters over digits, units, a letter and the signs
RateAlphabet == {"0", "1", "7", "s", "m", "h", "x", "+", "-"}
RateStrings == UNION {[1..n -> RateAlphabet] : n \in 0..MaxRateLen}

\* one tester, whose rate is any of the strings
InitRate ==
    /\ testers \in {<<[Rate |-> r, MaxRequests |-> 1, Proxy |-> "",
                       ErrorWaitIntervals |-> <<>>]>> : r \in RateStrings}
    /\ db = "open"
    /\ proc = "running"
    /\ panicIn = 0
    /\ spawned = 0
    /\ wg = 0
    /\ now = Second
    /\ startTime = now
    /\ tickPending = FALSE
    /\ pc = [i \in Endpoints |-> "unborn"]
    /\ wake = [i \in Endpoints |-> 0]
    /\ rate = [i \in Endpoints |-> NoRate]
    /\ requestCount = [i \in Endpoints |-> 0]
    /\ waitIndex = [i \in Endpoints |-> 0]
    /\ errorWait = [i \in Endpoints |-> 0]
    /\ lastError = [i \in Endpoints |-> 0]
    /\ batchStartTime = [i \in Endpoints |-> 0]
    /\ results = [i \in Endpoints |-> NewResult]
    /\ batches = [i \in Endpoints |-> <<>>]
    /\ events = [i \in Endpoints |-> <<>>]
    /\ hist = [i \in Endpoints |-> <<>>]

\* the probe is started and parses its rate (line 100)
NextRate ==
    \/ Spawn
    \/ \E i \in Endpoints : ProbeStart(i)

SpecRate == InitRate /\ [][NextRate]_vars

\* ------------------------------------------------- histories of a probe
RECURSIVE FailuresSinceSuccess(_)
\* failed requests received since the latest success (or since the start)
FailuresSinceSuccess(h) ==
    IF h = <<>> THEN 0
    ELSE LET e == h[Len(h)]
             front == SubSeq(h, 1, Len(h) - 1)
         IN  IF e.branch = "success" THEN 0
             ELSE IF e.branch = "failure"
                  THEN FailuresSinceSuccess(front) + 1
                  ELSE FailuresSinceSuccess(front)

RECURSIVE Recoveries(_)
\* successes that came with at least one failure since the success before
Recoveries(h) ==
    IF h = <<>> THEN 0
    ELSE LET e == h[Len(h)]
             front == SubSeq(h, 1, Len(h) - 1)
         IN  IF e.branch = "success" /\ FailuresSinceSuccess(front) > 0
             THEN Recoveries(front) + 1
             ELSE Recoveries(front)

RECURSIVE OpenStreakStart(_)
\* instant of the first failure received since the latest success, 0 when
\* there is none
OpenStreakStart(h) ==
    IF h = <<>> THEN 0
    ELSE LET e == h[Len(h)]
             front == SubSeq(h, 1, Len(h) - 1)
         IN  IF e.branch = "success" THEN 0
             ELSE IF OpenStreakStart(front) # 0 THEN OpenStreakStart(front)
                  ELSE IF e.branch = "failure" THEN e.at ELSE 0

RECURSIVE StreakDurations(_)
\* for each recovery, in order: the instant of the recovering success minus
\* the instant of the first failure of the streak it ends
StreakDurations(h) ==
    IF h = <<>> THEN <<>>
    ELSE LET e == h[Len(h)]
             front == SubSeq(h, 1, Len(h) - 1)
         IN  IF e.branch = "success" /\ OpenStreakStart(front) # 0
             THEN Append(StreakDurations(front), e.at - OpenStreakStart(front))
             ELSE StreakDurations(front)

RECURSIVE StreakLengths(_)
\* for each recovery, in order: the failures of the streak it ends
StreakLengths(h) ==
    IF h = <<>> THEN <<>>
    ELSE LET e == h[Len(h)]
             front == SubSeq(h, 1, Len(h) - 1)
         IN  IF e.branch = "success" /\ FailuresSinceSuccess(front) > 0
             THEN Append(StreakLengths(front), FailuresSinceSuccess(front))
             ELSE StreakLengths(front)

Min(a, b) == IF a < b THEN a ELSE b
Max(a, b) == IF a < b THEN b ELSE a
Branches(h) == [k \in 1..Len(h) |-> h[k].branch]

\* the probe passed its proxy and rate checks
Configured(i) == rate[i].ok
Active(i) == pc[i] \in {"pace", "request", "backoff"}

\* ------------------------------------------------------------------ C1
\* C1: with at least one endpoint configured, once every probe has finished
\* (and so has called wg.Done) the WaitGroup counter is zero, so that
\* wg.Wait returns and the process exits.
C1_CounterZeroWhenAllDone ==
    (Len(testers) >= 1 /\ spawned = Len(testers)
        /\ \A i \in Endpoints : pc[i] = "done")
    => wg = 0

\* ------------------------------------------------------------------ C2
\* C2: for a probe with a valid rate and proxy the request count goes up by
\* one per request, never exceeds MaxRequests, and the loop stops only when
\* the count has reached MaxRequests (max(0, MaxRequests) requests issued).
\* Stated for a database that opened, so that no run depends on the sink.
C2_LoopEndsOnlyAtBudget ==
    \A i \in Endpoints :
        (Configured(i) /\ db = "open") =>
            /\ requestCount[i] <= Max(0, testers[i].MaxRequests)
            /\ Len(hist[i]) \in {requestCount[i], requestCount[i] + 1}
            /\ (pc[i] = "done" \/ panicIn = i)
                   => requestCount[i] = Max(0, testers[i].MaxRequests)

\* ------------------------------------------------------------------ C3
\* C3: nothing that happens in endpoint a's probe stops another endpoint
\* b's probe short of its own MaxRequests budget.  Stated for a database
\* that opened, so that no run depends on the sink.
C3_NoCrossEndpointStop ==
    \A a, b \in Endpoints :
        ~(/\ a # b
          /\ db = "open"
          /\ panicIn = a
          /\ Active(b)
          /\ requestCount[b] < testers[b].MaxRequests)


\* ------------------------------------------------------------------ C4
\* C4: with a backoff sequence of length L >= 1, a probe sleeping after the
\* k-th failure since the latest success sleeps sequence[min(k, L) - 1]
\* seconds with waitIndex = min(k, L); waitIndex always lies in 0..L.
C4_BackoffEscalation ==
    \A i \in Endpoints :
        LET seq == testers[i].ErrorWaitIntervals
            L == Len(seq)
            k == FailuresSinceSuccess(hist[i])
        IN  /\ waitIndex[i] \in 0..L
            /\ (L >= 1 /\ pc[i] = "backoff") =>
                   /\ k >= 1
                   /\ waitIndex[i] = Min(k, L)
                   /\ errorWait[i] = seq[Min(k, L)] * Second

\* a probe sleeps after more consecutive failures than its sequence is long
C4_Witness ==
    \E i \in Endpoints :
        /\ pc[i] = "backoff"
        /\ Len(testers[i].ErrorWaitIntervals) >= 1
        /\ FailuresSinceSuccess(hist[i]) > Len(testers[i].ErrorWaitIntervals)
        /\ waitIndex[i] = Len(testers[i].ErrorWaitIntervals)

\* ------------------------------------------------------------------ C5
SuccessStep(i) ==
    /\ Len(hist'[i]) = Len(hist[i]) + 1
    /\ hist'[i][Len(hist'[i])].branch = "success"

FailureSleepStep(i) == pc[i] = "request" /\ pc'[i] = "backoff"

HasSuccess(h) == \E k \in 1..Len(h) : h[k].branch = "success"

\* C5: a success leaves waitIndex 0 and errorWait as it was; with a
\* non-empty sequence the first failure after a success sleeps sequence[0].
C5_ResetOnSuccess ==
    [][\A i \in Endpoints :
          /\ SuccessStep(i) =>
                 waitIndex'[i] = 0 /\ errorWait'[i] = errorWait[i]
          /\ (/\ FailureSleepStep(i)
              /\ HasSuccess(hist[i])
              /\ FailuresSinceSuccess(hist[i]) = 0
              /\ Len(testers[i].ErrorWaitIntervals) >= 1) =>
                 errorWait'[i] = testers[i].ErrorWaitIntervals[1] * Second]_vars

\* a failure, a success that resets the index from 1, and a failure that
\* sleeps the first interval of a two-step sequence again
C5_Witness ==
    \E i \in Endpoints :
        /\ Branches(hist[i]) = <<"failure", "success", "failure">>
        /\ testers[i].ErrorWaitIntervals = <<1, 2>>
        /\ pc[i] = "backoff"
        /\ errorWait[i] = Second
        /\ waitIndex[i] = 1

\* ------------------------------------------------------------------ C6
FailureOutcome(o) == o.err \/ (400 < o.status /\ o.status < 500)
SuccessOutcome(o) == ~o.err /\ 200 <= o.status /\ o.status < 300

\* C6: the failure branch is taken exactly on a transport error or a status
\* in (400, 500), the success branch exactly on a status in [200, 300)
\* without transport error; any other outcome adds one to the request count
\* and changes nothing else of the probe: no counter, no backoff state, no
\* streak start, no ErrorEvent, no Batch, no backoff sleep.
C6_Classification ==
    [][\A i \in Endpoints, o \in Outcomes :
          /\ HandleFailure(i, o) => FailureOutcome(o)
          /\ HandleSuccess(i, o) => SuccessOutcome(o)
          /\ HandleUnclassified(i, o) =>
                 /\ ~FailureOutcome(o) /\ ~SuccessOutcome(o)
                 /\ results'[i] = results[i]
                 /\ waitIndex'[i] = waitIndex[i]
                 /\ errorWait'[i] = errorWait[i]
                 /\ lastError'[i] = lastError[i]
                 /\ events'[i] = events[i]
                 /\ batches'[i] = batches[i]
                 /\ pc'[i] # "backoff"
                 /\ requestCount'[i] = requestCount[i] + 1
          /\ (pc[i] = "request" /\ proc = "running") =>
                 /\ FailureOutcome(o) => ENABLED HandleFailure(i, o)
                 /\ SuccessOutcome(o) => ENABLED HandleSuccess(i, o)
                 /\ (~FailureOutcome(o) /\ ~SuccessOutcome(o))
                        => ENABLED HandleUnclassified(i, o)]_vars

\* an unclassified response received inside an open streak: the count went
\* up, the error counter, the index and the streak start are as they were
C6_Witness ==
    \E i \in Endpoints :
        /\ Branches(hist[i]) = <<"failure", "none">>
        /\ requestCount[i] = 2
        /\ results[i].ErrorCount = 1
        /\ results[i].SuccessfulCount = 0
        /\ waitIndex[i] = 1
        /\ lastError[i] # 0


\* ------------------------------------------------------------------ C7
\* C7: a probe has emitted exactly one Batch per recovery (a success with
\* at least one failure since the success before it); the Batch of a streak
\* of n failures has Failures = n, and after n failures and one success
\* Successes = 1; right after a Batch both within-streak counters are 0.
C7_OneBatchPerRecovery ==
    \A i \in Endpoints :
        /\ Len(batches[i]) = Recoveries(hist[i])
        /\ \A j \in 1..Len(batches[i]) :
               batches[i][j].Failures = StreakLengths(hist[i])[j]
        /\ (Len(batches[i]) = 1 /\ Len(hist[i]) = batches[i][1].Failures + 1)
               => batches[i][1].Successes = 1
        /\ (hist[i] # <<>> /\ hist[i][Len(hist[i])].branch = "success"
                /\ FailuresSinceSuccess(SubSeq(hist[i], 1, Len(hist[i]) - 1)) > 0)
               => /\ results[i].BatchErrorCount = 0
                  /\ results[i].BatchSuccessfulCount = 0

\* ------------------------------------------------------------------ C8
\* C8: the FailTime of the j-th Batch is the instant of the j-th recovering
\* success minus the instant of the first failure of the streak it ends;
\* the streak start held by the probe is never anything but the instant of
\* the first failure since the latest success, it is held throughout the
\* backoff sleep, and a success leaves it cleared.
C8_FailTimeFromFirstFailure ==
    \A i \in Endpoints :
        /\ \A j \in 1..Len(batches[i]) :
               /\ j <= Len(StreakDurations(hist[i]))
               /\ batches[i][j].FailTime = StreakDurations(hist[i])[j]
        /\ lastError[i] # 0 => lastError[i] = OpenStreakStart(hist[i])
        /\ pc[i] = "backoff" => lastError[i] # 0
        /\ (hist[i] # <<>> /\ hist[i][Len(hist[i])].branch = "success")
               => lastError[i] = 0

\* a Batch closing a streak of two failures that began a second or more
\* before its recovering success
C8_Witness ==
    \E i \in Endpoints :
        /\ Len(batches[i]) = 1
        /\ batches[i][1].Failures >= 2
        /\ batches[i][1].FailTime >= Second
        /\ \E k \in 2..Len(hist[i]) :
               /\ hist[i][k].branch = "failure"
               /\ hist[i][k].at > OpenStreakStart(SubSeq(hist[i], 1, k))

\* ------------------------------------------------------------------ C9
\* C9: the success time a Batch will carry is that of the success run
\* before the streak, fixed by the first failure of the streak: the second
\* and later failures of a streak leave it unchanged.
C9_SuccessTimeKeptInStreak ==
    [][\A i \in Endpoints :
          (FailureSleepStep(i) /\ FailuresSinceSuccess(hist[i]) >= 1) =>
              results'[i].TotalSuccessTime = results[i].TotalSuccessTime]_vars

\* ----------------------------------------------------------------- C10
\* C10 as claimed: every emitted Batch records 0 as its backoff step.
C10_RecordsZero ==
    \A i \in Endpoints :
        \A j \in 1..Len(batches[i]) : batches[i][j].LastWaitInterval = 0

\* C10, amended: every emitted Batch records the first interval of the
\* endpoint's backoff sequence, the entry at the reset index 0, whatever
\* the length of the streak.
C10_RecordsFirstInterval ==
    \A i \in Endpoints :
        \A j \in 1..Len(batches[i]) :
            batches[i][j].LastWaitInterval = testers[i].ErrorWaitIntervals[1]

\* a Batch built after a streak that had escalated to the second step
C10_Witness ==
    \E i \in Endpoints :
        /\ testers[i].ErrorWaitIntervals = <<1, 2>>
        /\ Len(batches[i]) = 1
        /\ batches[i][1].Failures = 2
        /\ batches[i][1].LastWaitInterval = 1
        /\ errorWait[i] = 2 * Second


\* ----------------------------------------------------------------- C11
RECURSIVE CountBranch(_, _)
\* responses of the history that took the branch b
CountBranch(h, b) ==
    IF h = <<>> THEN 0
    ELSE CountBranch(SubSeq(h, 1, Len(h) - 1), b)
             + (IF h[Len(h)].branch = b THEN 1 ELSE 0)

\* the tester's proxy or rate is one the program must reject
Misconfigured(i) ==
    testers[i].Proxy = "%zz" \/ testers[i].Rate = <<"0", "s">>

\* C11: a probe whose proxy or rate is rejected issues no request (its
\* counts stay 0, no ErrorEvent, no Batch) and calls wg.Done once, as every
\* finished probe does; once it has returned, another endpoint's probe that
\* is under way can still take its next step, or waits for its own backoff
\* sleep only.
C11_ConfigErrorIsLocal ==
    /\ wg = spawned * WgDelta - Cardinality({i \in Endpoints : pc[i] = "done"})
    /\ \A i \in Endpoints :
           Misconfigured(i) =>
               /\ pc[i] \in {"unborn", "start", "done"}
               /\ requestCount[i] = 0
               /\ hist[i] = <<>>
               /\ events[i] = <<>>
               /\ batches[i] = <<>>
               /\ results[i] = NewResult
    /\ \A i, j \in Endpoints :
           (i # j /\ Misconfigured(i) /\ pc[i] = "done" /\ proc = "running") =>
               /\ pc[j] = "start" => ENABLED ProbeStart(j)
               /\ pc[j] = "pace" => ENABLED PaceDone(j)
               /\ pc[j] = "request" =>
                      ENABLED (\E o \in Outcomes : HandleSuccess(j, o))

\* one probe returned on its configuration error and the other completed
\* its budget
C11_Witness ==
    \E i, j \in Endpoints :
        /\ i # j
        /\ Misconfigured(i)
        /\ pc[i] = "done"
        /\ pc[j] = "done"
        /\ testers[j].MaxRequests >= 1
        /\ requestCount[j] = testers[j].MaxRequests
        /\ wg = 2 * WgDelta - 2

\* ----------------------------------------------------------------- C12
\* C12: a sink that failed to initialise (databaseInit returned no handle)
\* never aborts a probe: the process does not crash on it.
C12_SinkFailureNeverAborts == db = "nil" => proc # "crashed"


\* ----------------------------------------------------------------- C13
RefDigit(c) == c \in {"0", "1", "2", "3", "4", "5", "6", "7", "8", "9"}

RECURSIVE RefNumber(_)
\* the decimal value of a string of digits
RefNumber(s) ==
    IF s = <<>> THEN 0
    ELSE RefNumber(SubSeq(s, 1, Len(s) - 1)) * 10
             + (CHOOSE d \in 0..9 : ToString(d) = s[Len(s)])

\* the digits of a decimal integer written with or without a plus sign
RefDigitsOf(s) == IF s # <<>> /\ s[1] = "+" THEN Tail(s) ELSE s

\* "<n><u>": a positive decimal integer and then one unit
RefValidRate(r) ==
    /\ Len(r) >= 2
    /\ r[Len(r)] \in {"s", "m", "h"}
    /\ LET ds == RefDigitsOf(SubSeq(r, 1, Len(r) - 1))
       IN  /\ ds # <<>>
           /\ \A k \in 1..Len(ds) : RefDigit(ds[k])
           /\ RefNumber(ds) > 0

RefWaitTime(r) ==
    (CASE r[Len(r)] = "s" -> Second [] r[Len(r)] = "m" -> Minute
       [] r[Len(r)] = "h" -> Hour)
        \div RefNumber(RefDigitsOf(SubSeq(r, 1, Len(r) - 1)))

\* C13: parseRate accepts exactly the strings "<n><u>" with n a positive
\* decimal integer and u one of s, m, h, with waitTime() = unitDuration(u)
\* / n, and rejects every other string.
C13_ParseRateAgrees ==
    \A i \in Endpoints :
        pc[i] \in {"pace", "done"} =>
            /\ rate[i].ok <=> RefValidRate(testers[i].Rate)
            /\ RefValidRate(testers[i].Rate) =>
                   waitTime(rate[i]) = RefWaitTime(testers[i].Rate)


\* ----------------------------------------------------------------- C14
\* probe i takes a step: its position or its history of responses changes
ProbeStep(i) == pc'[i] # pc[i] \/ hist'[i] # hist[i]

\* the reporter consumes a tick
ReporterStep == tickPending /\ ~tickPending'

\* C14: results[i] is written only by endpoint i's probe: a step that
\* changes a field of results[i] is a step of probe i, a step of probe i
\* changes no other endpoint's window, and a Reporter tick changes no
\* window and no probe-local variable.
C14_SingleWriter ==
    [][/\ \A i \in Endpoints : results'[i] # results[i] => ProbeStep(i)
       /\ \A i, j \in Endpoints :
              (i # j /\ ProbeStep(i)) => results'[j] = results[j]
       /\ ReporterStep => UNCHANGED probeVars]_vars

\* both probes of a pair have written their windows, differently, and the
\* reporter has consumed every tick so far
C14_Witness ==
    /\ Len(testers) = 2
    /\ results[1] # NewResult
    /\ results[2] # NewResult
    /\ results[1] # results[2]
    /\ now > startTime
    /\ ~tickPending


\* ----------------------------------------------------------------- C15
\* C15 as stated: the counters are incremented and the streak start is
\* recorded only after the sleep, so while the sleeping flag is true the
\* error counters do not yet include the failure that caused the sleep.
C15_CountedAfterSleep ==
    \A i \in Endpoints :
        results[i].SleepStatus =>
            /\ results[i].ErrorCount = CountBranch(hist[i], "failure") - 1
            /\ results[i].BatchErrorCount = FailuresSinceSuccess(hist[i]) - 1

\* C15, amended: the ErrorEvent is emitted, the counters are incremented and
\* the streak start is recorded before the sleeping flag is set; wherever
\* the sleeping flag is true the error counters include the failure that
\* caused the sleep, its event has been emitted and the streak start is set.
C15_CountedBeforeSleep ==
    \A i \in Endpoints :
        results[i].SleepStatus =>
            /\ results[i].ErrorCount = CountBranch(hist[i], "failure")
            /\ results[i].BatchErrorCount = FailuresSinceSuccess(hist[i])
            /\ Len(events[i]) = CountBranch(hist[i], "failure")
            /\ lastError[i] = OpenStreakStart(hist[i])
            /\ lastError[i] # 0

\* asleep after the second failure of a streak that followed a success
C15_Witness ==
    \E i \in Endpoints :
        /\ results[i].SleepStatus
        /\ pc[i] = "backoff"
        /\ results[i].ErrorCount = 2
        /\ results[i].SuccessfulCount = 1
        /\ lastError[i] < hist[i][Len(hist[i])].at


\* ----------------------------------------------------------------- C16
\* C16 as stated: the wait the Reporter prints (Result.ErrorWait) is the
\* probe's current backoff wait (errorWait) in every state it can observe.
C16_PrintsCurrentWait ==
    \A i \in Endpoints :
        proc = "running" => results[i].ErrorWait = errorWait[i]

\* the duration of the latest error streak that a success has ended
LastStreakDuration(h) ==
    IF StreakDurations(h) = <<>> THEN 0
    ELSE StreakDurations(h)[Len(StreakDurations(h))]

\* C16, amended: the wait the Reporter prints (Result.ErrorWait) is the
\* duration of the most recently ended error streak, from its first failure
\* to the success that ended it, and zero until a streak has ended; a
\* failure and its backoff sleep do not change it.
C16_PrintsLastStreakDuration ==
    \A i \in Endpoints :
        results[i].ErrorWait = LastStreakDuration(hist[i])

\* the reporter can observe a window whose streak of two failures lasted
\* two seconds while each failure slept one second
C16_Witness ==
    \E i \in Endpoints :
        /\ proc = "running"
        /\ tickPending
        /\ Len(batches[i]) = 1
        /\ results[i].ErrorWait = 2 * Second
        /\ errorWait[i] = Second


\* ----------------------------------------------------------------- C17
\* the statement supplies one value per placeholder and one placeholder per
\* column it names
WellFormed(e) ==
    /\ e.placeholders = Len(e.args)
    /\ e.placeholders = Len(e.columns)

\* C17: with the sink open, one ErrorEvent has been handed to it per failed
\* request and none for a success or an unclassified response, and every
\* one is in a form the sink can record: as many values as placeholders,
\* of kind "sys" with the error or of kind "http" with the status.
C17_OneWellFormedEventPerFailure ==
    \A i \in Endpoints :
        db = "open" =>
            /\ Len(events[i]) = CountBranch(hist[i], "failure")
            /\ \A k \in 1..Len(events[i]) :
                   /\ WellFormed(events[i][k])
                   /\ events[i][k].args[1] = i
                   /\ events[i][k].args[2] \in {"sys", "http"}


\* ----------------------------------------------------------------- C18
\* C18: a success sets RequestsPerSecond to the new cumulative success
\* count over the time since the start and leaves the cumulative error
\* count unchanged; every other step (a failed request, the end of its
\* sleep, an unclassified response) leaves RequestsPerSecond and the
\* cumulative success count unchanged.
C18_RateOnlyOnSuccess ==
    [][\A i \in Endpoints :
          /\ SuccessStep(i) =>
                 /\ results'[i].SuccessfulCount =
                        results[i].SuccessfulCount + 1
                 /\ results'[i].RequestsPerSecond =
                        <<results[i].SuccessfulCount + 1, now - startTime>>
                 /\ results'[i].ErrorCount = results[i].ErrorCount
          /\ ~SuccessStep(i) =>
                 /\ results'[i].RequestsPerSecond =
                        results[i].RequestsPerSecond
                 /\ results'[i].SuccessfulCount =
                        results[i].SuccessfulCount]_vars

\* a success a second after the start, then a failure and an unclassified
\* response later on: the rate is still the one of the success
C18_Witness ==
    \E i \in Endpoints :
        /\ Branches(hist[i]) = <<"success", "failure", "none">>
        /\ hist[i][1].at > startTime
        /\ hist[i][3].at > hist[i][1].at
        /\ results[i].RequestsPerSecond = <<1, hist[i][1].at - startTime>>
        /\ results[i].ErrorCount = 1


\* ----------------------------------------------------------------- C19
RECURSIVE SumFailures(_)
SumFailures(bs) ==
    IF bs = <<>> THEN 0
    ELSE SumFailures(SubSeq(bs, 1, Len(bs) - 1)) + bs[Len(bs)].Failures

RECURSIVE SumSuccesses(_)
SumSuccesses(bs) ==
    IF bs = <<>> THEN 0
    ELSE SumSuccesses(SubSeq(bs, 1, Len(bs) - 1)) + bs[Len(bs)].Successes

\* the probe is between two iterations of its loop, or has left it
AtIterationEnd(i) == Configured(i) /\ pc[i] \in {"pace", "done"}

\* C19: at the end of every loop iteration the cumulative error count is
\* the failures of all emitted Batches plus the within-streak error count,
\* the cumulative success count is the successes of all emitted Batches
\* plus the within-streak success count, and successes plus errors do not
\* exceed the request count.
C19_CountsConserved ==
    \A i \in Endpoints :
        AtIterationEnd(i) =>
            /\ results[i].ErrorCount =
                   SumFailures(batches[i]) + results[i].BatchErrorCount
            /\ results[i].SuccessfulCount =
                   SumSuccesses(batches[i]) + results[i].BatchSuccessfulCount
            /\ results[i].SuccessfulCount + results[i].ErrorCount
                   <= requestCount[i]

\* after a Batch and one further failure: the error count is the Batch's
\* failure plus the one of the open streak
C19_Witness ==
    \E i \in Endpoints :
        /\ AtIterationEnd(i)
        /\ Len(batches[i]) = 1
        /\ batches[i][1].Failures = 1
        /\ results[i].BatchErrorCount = 1
        /\ results[i].ErrorCount = 2
        /\ results[i].SuccessfulCount = 1
        /\ requestCount[i] = 3


\* ----------------------------------------------------------------- C20
\* C20: an endpoint's sleeping flag is true only while its probe is inside
\* the backoff sleep that follows a failure; it is false while the probe
\* has not started, is pacing, requesting, or has terminated.
C20_SleepingOnlyInBackoff ==
    \A i \in Endpoints :
        /\ results[i].SleepStatus =>
               pc[i] = "backoff" /\ FailuresSinceSuccess(hist[i]) >= 1
        /\ pc[i] \in {"unborn", "start", "pace", "request", "done"} =>
               ~results[i].SleepStatus

\* one probe asleep after its failure while the other has slept, woken up
\* and finished
C20_Witness ==
    \E i, j \in Endpoints :
        /\ i # j
        /\ results[i].SleepStatus
        /\ pc[i] = "backoff"
        /\ pc[j] = "done"
        /\ Branches(hist[j]) = <<"failure">>
        /\ ~results[j].SleepStatus

====
